---- MODULE Spec2Model ----
(***************************************************************************)
(* Request pipeline of the Safe Bharat backend (src/server.js, the         *)
(* deployed copy at lines 188-413).                                        *)
(*                                                                         *)
(* Every request runs, in the order of the app.use calls, through          *)
(*   rateLimit({windowMs: 15 min, max: 100})   line 208                    *)
(*   cache('5 minutes')                        line 209                    *)
(*   authenticateToken (protected routes)      lines 280-288               *)
(*   the route handler                         lines 291-399               *)
(* Both middlewares are mounted with app.use and no options, so they see   *)
(* every request of every method.  The cache middleware is keyed by the    *)
(* request URL (req.originalUrl), records whatever response ends the       *)
(* request (status and body) and drops the entry by a timer 5 minutes      *)
(* after it was stored.                                                    *)
(*                                                                         *)
(* Time is counted in minutes.  Collections of the store are modelled by   *)
(* their number of documents.                                              *)
(***************************************************************************)
EXTENDS Integers, Sequences, FiniteSets, TLC

VARIABLES now, hits, windowStart, cacheTab, issued,
          alerts, reports, checkins, files,
          resources, twilioClient, last, scope, senders,
          inflight, tally

vars == <<now, hits, windowStart, cacheTab, issued,
          alerts, reports, checkins, files,
          resources, twilioClient, last, scope, senders,
          inflight, tally>>

(***************************************************************************)
(* Program constants                                                       *)
(***************************************************************************)
WindowMin == 15
MaxRate == 100
CacheTTL == 5
TokenLife == 60
FileSizeLimit == 5242880
AlertLimit == 50
AllLimit == 100
CityLimit == 50
NewsLimit == 10

(***************************************************************************)
(* Bounds of the model                                                     *)
(***************************************************************************)
MaxBurst == 2
MaxRecords == 1
MaxTokens == 1
RateHeadroom == 2
MaxInflight == 2

\* the instants at which requests arrive (minutes after the start)
Instants == {0, 4, 5, 15, 59, 60}
Clients == {"c1", "c2"}
None == 0 - 1

Min(a, b) == IF a < b THEN a ELSE b

(***************************************************************************)
(* Strings that the code inspects are sequences of characters.             *)
(***************************************************************************)
Pune == <<"P", "u", "n", "e">>
pune == <<"p", "u", "n", "e">>
PuneCamp == <<"P", "U", "N", "E", " ", "C">>
Delhi == <<"D", "e", "l", "h", "i">>
Goa == <<"G", "o", "a">>
Empty == <<>>

ToLower(ch) ==
  CASE ch = "P" -> "p" [] ch = "U" -> "u" [] ch = "N" -> "n"
    [] ch = "E" -> "e" [] ch = "C" -> "c" [] ch = "D" -> "d"
    [] ch = "G" -> "g" [] OTHER -> ch

LowerStr(s) == [i \in 1..Len(s) |-> ToLower(s[i])]

IsSubstr(p, s) ==
  \E i \in 0..(Len(s) - Len(p)) : SubSeq(s, i + 1, i + Len(p)) = p

\* new RegExp(city, 'i').test(value) for a city made of letters and spaces
RegExpTestI(city, value) == IsSubstr(LowerStr(city), LowerStr(value))

(***************************************************************************)
(* The Resource collection: a bag of documents, given by their city.       *)
(***************************************************************************)
EmptyStore == {}
FullStore ==
  {[city |-> Pune, n |-> 2], [city |-> PuneCamp, n |-> 60],
   [city |-> Delhi, n |-> 45]}

\* the deployments explored: what the Resource collection holds, and
\* whether TWILIO_SID is set
Deployments ==
  { [resources |-> EmptyStore, twilio |-> FALSE],
    [resources |-> FullStore, twilio |-> TRUE] }

RECURSIVE BagCount(_)
BagCount(B) ==
  IF B = {} THEN 0
  ELSE LET d == CHOOSE x \in B : TRUE IN d.n + BagCount(B \ {d})

\* variant: the limit forgotten
FindAllNoLimit(R) == BagCount(R)

\* Resource.find().limit(100)
FindAll(R) == Min(BagCount(R), AllLimit)

\* Resource.find({ city: new RegExp(city, 'i') }).limit(50)
FindByCity(R, city) ==
  Min(BagCount({d \in R : RegExpTestI(city, d.city)}), CityLimit)

(***************************************************************************)
(* Requests.  query is the raw query string as a sequence of name/value    *)
(* pairs, auth the words of the Authorization header (split(' ')).         *)
(***************************************************************************)
Param(name, value) == [name |-> name, value |-> value]

ResourceQueries ==
  { <<>>,
    <<Param("city", Empty)>>,
    <<Param("city", pune)>>,
    <<Param("city", Goa)>> }

\* req.query.city (undefined when the parameter is not given)
RECURSIVE QueryGet(_, _)
QueryGet(q, name) ==
  IF q = <<>> THEN [given |-> FALSE, value |-> Empty]
  ELSE IF q[1].name = name THEN [given |-> TRUE, value |-> q[1].value]
  ELSE QueryGet(Tail(q), name)

Word(sig, iat) == [sig |-> sig, iat |-> iat]
Bearer == Word("Bearer", None)
Garbage == Word("garbage", None)
Undefined == Word("undefined", None)

\* jwt.sign({ username }, secret, { expiresIn: '1h' }) at time t
JwtSign(t) == Word("good", t)

\* jwt.verify(token, secret): signature, then exp = iat + 1h against the clock
JwtVerify(tok, t) == tok.sig = "good" /\ t < tok.iat + TokenLife

\* req.headers['authorization']?.split(' ')[1]
HeaderToken(auth) == IF Len(auth) >= 2 THEN auth[2] ELSE Undefined

Body(kind, val) == [kind |-> kind, val |-> val]

\* authenticateToken: 0 stands for next()
AuthenticateToken(auth, t) ==
  LET token == HeaderToken(auth) IN
  IF token = Undefined THEN [status |-> 401, body |-> Body("Token required", 0)]
  ELSE IF ~JwtVerify(token, t) THEN [status |-> 403, body |-> Body("Invalid token", 0)]
  ELSE [status |-> 0, body |-> Body("next", 0)]

\* Authorization headers a client can send at this point
AuthHeaders ==
  { <<>>, <<Bearer>>, <<Bearer, Garbage>>, <<Bearer, Word("bad", 0)>> }
  \cup { <<Bearer, JwtSign(t)>> : t \in issued }

(***************************************************************************)
(* multer({ storage, limits: { fileSize }, fileFilter }) and the           *)
(* error-handling middleware that receives what multer passes to next(err) *)
(***************************************************************************)
Mime(type, subtype) == [type |-> type, subtype |-> subtype]
NoFile == [mime |-> Mime("", ""), size |-> 0]
Files ==
  { NoFile,
    [mime |-> Mime("image", "png"), size |-> 1048576],
    [mime |-> Mime("image", "png"), size |-> 6291456],
    [mime |-> Mime("application", "pdf"), size |-> 5242880],
    [mime |-> Mime("text", "plain"), size |-> 1024] }

\* variant: every type is let through
FileFilterAny(mime) == TRUE

\* file.mimetype.startsWith('image/') || file.mimetype === 'application/pdf'
FileFilter(mime) ==
  mime.type = "image" \/ (mime.type = "application" /\ mime.subtype = "pdf")

ErrorMiddleware == [status |-> 500, body |-> Body("Internal server error", 0)]

Next0 == [status |-> 0, body |-> Body("next", 0)]

\* upload.single(field): 0 stands for next()
UploadSingle(file) ==
  IF file = NoFile THEN Next0
  ELSE IF ~FileFilter(file.mime) THEN ErrorMiddleware
  ELSE IF file.size > FileSizeLimit THEN ErrorMiddleware
  ELSE Next0

(***************************************************************************)
(* Route handlers.  A handler yields the response and the state it leaves; *)
(* db, geo, feed and sms tell the outcome of the external call the handler *)
(* made ("-" when it made none), created the number of documents saved.    *)
(***************************************************************************)
Base ==
  [status |-> 200, body |-> Body("", 0),
   alerts |-> alerts, reports |-> reports, checkins |-> checkins,
   files |-> files, issued |-> issued,
   db |-> "-", geo |-> "-", feed |-> "-", sms |-> "-", created |-> 0]

ServerError(e) == [e EXCEPT !.status = 500, !.body = Body("Server error", 0)]

\* app.post('/api/login')
LoginHandler(username, password) ==
  IF username = "user" /\ password = "pass"
  THEN [Base EXCEPT !.body = Body("token", now), !.issued = issued \cup {now}]
  ELSE [Base EXCEPT !.status = 401, !.body = Body("Invalid credentials", 0)]

\* app.get('/api/alerts')
GetAlertsHandler(dbOk) ==
  IF dbOk
  THEN [Base EXCEPT !.db = "ok", !.body = Body("alerts", Min(alerts, AlertLimit))]
  ELSE ServerError([Base EXCEPT !.db = "fail"])

\* app.post('/api/alerts'): valid = title and message are given
PostAlertsHandler(valid, dbOk) ==
  IF ~valid THEN ServerError(Base)
  ELSE IF ~dbOk THEN ServerError([Base EXCEPT !.db = "fail"])
  ELSE [Base EXCEPT !.status = 201, !.db = "ok", !.created = 1,
                    !.alerts = alerts + 1, !.body = Body("alert", alerts + 1)]

\* app.post('/api/reports'): valid = description is given
PostReportsHandler(valid, dbOk) ==
  IF ~valid THEN ServerError(Base)
  ELSE IF ~dbOk THEN ServerError([Base EXCEPT !.db = "fail"])
  ELSE [Base EXCEPT !.status = 201, !.db = "ok", !.created = 1,
                    !.reports = reports + 1, !.body = Body("report", reports + 1)]

\* variant: the store is asked although the geocoder found nothing
GetResourcesLocalFirst(query, geo, dbOk) ==
  LET city == QueryGet(query, "city") IN
  IF ~city.given \/ city.value = Empty
  THEN IF dbOk
       THEN [Base EXCEPT !.db = "ok", !.body = Body("resources", FindAll(resources))]
       ELSE ServerError([Base EXCEPT !.db = "fail"])
  ELSE IF geo = "fail" THEN ServerError([Base EXCEPT !.geo = "fail"])
  ELSE IF dbOk
  THEN [Base EXCEPT !.geo = geo, !.db = "ok",
                    !.body = Body("resources", FindByCity(resources, city.value))]
  ELSE ServerError([Base EXCEPT !.geo = geo, !.db = "fail"])

\* app.get('/api/resources'): geo is what the geocoder answers when asked
GetResourcesHandler(query, geo, dbOk) ==
  LET city == QueryGet(query, "city") IN
  IF ~city.given \/ city.value = Empty
  THEN IF dbOk
       THEN [Base EXCEPT !.db = "ok", !.body = Body("resources", FindAll(resources))]
       ELSE ServerError([Base EXCEPT !.db = "fail"])
  ELSE IF geo = "fail" THEN ServerError([Base EXCEPT !.geo = "fail"])
  ELSE IF geo = "none"
  THEN [Base EXCEPT !.geo = "none", !.status = 404, !.body = Body("City not found", 0)]
  ELSE IF dbOk
  THEN [Base EXCEPT !.geo = "some", !.db = "ok",
                    !.body = Body("resources", FindByCity(resources, city.value))]
  ELSE ServerError([Base EXCEPT !.geo = "some", !.db = "fail"])

\* app.get('/api/news'): items = number of items of the feed
GetNewsHandler(feedOk, items) ==
  IF feedOk
  THEN [Base EXCEPT !.feed = "ok", !.body = Body("news", Min(items, NewsLimit))]
  ELSE [Base EXCEPT !.feed = "fail", !.status = 500,
                    !.body = Body("Error fetching news", 0)]

\* variant: the SMS is sent before the record is saved
PostCheckinsSmsFirst(valid, dbOk, smsOk) ==
  IF ~valid THEN ServerError(Base)
  ELSE IF twilioClient /\ ~smsOk THEN ServerError([Base EXCEPT !.sms = "fail"])
  ELSE LET sent == [Base EXCEPT !.sms = IF twilioClient THEN "ok" ELSE "-"] IN
       IF ~dbOk THEN ServerError([sent EXCEPT !.db = "fail"])
       ELSE [sent EXCEPT !.db = "ok", !.created = 1, !.checkins = checkins + 1,
                         !.status = 201, !.body = Body("checkin", checkins + 1)]

\* variant: the record is removed again when the SMS cannot be sent
PostCheckinsRollback(valid, dbOk, smsOk) ==
  IF ~valid THEN ServerError(Base)
  ELSE IF ~dbOk THEN ServerError([Base EXCEPT !.db = "fail"])
  ELSE LET saved == [Base EXCEPT !.db = "ok", !.created = 1,
                                 !.checkins = checkins + 1] IN
       IF ~twilioClient \/ smsOk
       THEN [saved EXCEPT !.sms = IF twilioClient THEN "ok" ELSE "-",
                          !.status = 201, !.body = Body("checkin", checkins + 1)]
       ELSE ServerError([Base EXCEPT !.db = "ok", !.sms = "fail"])

\* app.post('/api/checkins'): valid = message and phone are given
PostCheckinsHandler(valid, dbOk, smsOk) ==
  IF ~valid THEN ServerError(Base)
  ELSE IF ~dbOk THEN ServerError([Base EXCEPT !.db = "fail"])
  ELSE LET saved == [Base EXCEPT !.db = "ok", !.created = 1,
                                 !.checkins = checkins + 1] IN
       IF ~twilioClient
       THEN [saved EXCEPT !.status = 201, !.body = Body("checkin", checkins + 1)]
       ELSE IF smsOk
       THEN [saved EXCEPT !.sms = "ok", !.status = 201,
                          !.body = Body("checkin", checkins + 1)]
       ELSE ServerError([saved EXCEPT !.sms = "fail"])

\* app.post('/upload'): the catch block answers with err.message
PostUploadHandler(file, dbOk) ==
  IF file = NoFile
  THEN [Base EXCEPT !.status = 500, !.body = Body("err.message: TypeError", 0)]
  ELSE IF ~dbOk
  THEN [Base EXCEPT !.db = "fail", !.status = 500,
                    !.body = Body("err.message: store", 0)]
  ELSE [Base EXCEPT !.db = "ok", !.created = 1, !.files = files + 1,
                    !.body = Body("File metadata saved!", 0)]

(***************************************************************************)
(* The two app.use middlewares                                             *)
(***************************************************************************)
Paths == {"/api/login", "/api/alerts", "/api/reports", "/api/resources",
          "/api/news", "/api/checkins", "/upload"}

Urls == { <<p, <<>> >> : p \in Paths }
        \cup { <<"/api/resources", q>> : q \in ResourceQueries }

\* the URLs that the clients of one behaviour request
Scopes == { S \in SUBSET Urls : Cardinality(S) = 2 }
Singles == { {u} : u \in Urls }

\* the cache key: req.originalUrl, that is the path and the raw query string
CacheKey(path, query) == <<path, query>>

\* method is the method of the request whose response the entry holds
NoEntry == [status |-> 0, body |-> Body("", 0), storedAt |-> None, method |-> ""]

\* variant: the count is written from the value seen when the request arrived
IncrementFromSnapshot(current, snapshot) == snapshot + 1

\* rateLimit's store: the client's count is read and written in one turn of
\* the event loop; snapshot is what the count was when the request arrived
Increment(current, snapshot) == current + 1

\* variant: the request that reaches max is refused already
LimitedOffByOne(n) == n >= MaxRate

\* rateLimit: the request is refused when it is counted beyond max
Limited(n) == n > MaxRate

\* variant: an entry outlives its duration by one instant
ExpiredLate(entry, t) == t > entry.storedAt + CacheTTL

\* the timer set when an entry is stored removes it after the duration
Expired(entry, t) == t >= entry.storedAt + CacheTTL

\* the window of a client ends windowMs after it began
WindowOver(start, t) == t >= start + WindowMin

TooMany == [status |-> 429, body |-> Body("Too many requests", 0)]

\* counter values the model explores
CanSend(c) ==
  \/ hits[c] < MaxBurst
  \/ hits[c] >= MaxRate - RateHeadroom /\ hits[c] < MaxRate + MaxBurst

\* username and password of a request body that carries none
NoCreds == <<"", "">>

\* what a request carries besides its URL and headers: the credentials of a
\* login, the file of a multipart body, and whether the body has the fields
\* that the schema of the route requires
Input(creds, file, valid) == [creds |-> creds, file |-> file, valid |-> valid]
NoInput == Input(NoCreds, NoFile, FALSE)

Idle ==
  [client |-> "", method |-> "", path |-> "", query |-> <<>>, auth |-> <<>>,
   creds |-> NoCreds, file |-> NoFile, valid |-> FALSE,
   time |-> None, status |-> 0, body |-> Body("", 0),
   limited |-> FALSE, cacheHit |-> FALSE, hitStoredAt |-> None,
   hitMethod |-> "", authRan |-> FALSE, handlerRan |-> FALSE, cached |-> FALSE,
   db |-> "-", geo |-> "-", feed |-> "-", sms |-> "-", created |-> 0]

\* what the last request was and what happened to it
Obs(c, method, path, query, auth) ==
  [Idle EXCEPT !.client = c, !.method = method, !.path = path,
               !.query = query, !.auth = auth, !.time = now]

(***************************************************************************)
(* The order of the middlewares: which stage ends the request.             *)
(*   limited  rateLimit counted the request beyond max                     *)
(*   hit      the cache holds an entry under the request's key             *)
(*   denied   authenticateToken answered 401 or 403                        *)
(*   failed   upload.single passed an error to the error middleware        *)
(***************************************************************************)
\* variant: the rate limiter answers 429 and lets the request go on
StageFallThrough(limited, hit, denied, failed) ==
  IF hit THEN "cache"
  ELSE IF denied THEN "auth"
  ELSE IF failed THEN "upload"
  ELSE "handler"

Stage(limited, hit, denied, failed) ==
  IF limited THEN "limiter"
  ELSE IF hit THEN "cache"
  ELSE IF denied THEN "auth"
  ELSE IF failed THEN "upload"
  ELSE "handler"

(***************************************************************************)
(* Book-keeping of the requests of one window, kept beside the limiter's   *)
(* own count: how many requests reached the limiter and how many of them   *)
(* it let through.                                                         *)
(***************************************************************************)
NoTally == [counted |-> 0, admitted |-> 0]
Tally(n) == [counted |-> n, admitted |-> Min(n, MaxRate)]
Counted(t, n) ==
  [counted |-> t.counted + 1,
   admitted |-> t.admitted + IF Limited(n) THEN 0 ELSE 1]

(***************************************************************************)
(* One request through the pipeline: rate limiter, cache, then the route's *)
(* own chain (authenticateToken, upload.single, handler).  mw is the       *)
(* outcome of upload.single on the route, effs what the handler can do,    *)
(* one element for every outcome of the calls it makes.                    *)
(***************************************************************************)
Serve(c, method, path, query, auth, input, protected, mw, effs) ==
  LET n == Increment(hits[c], hits[c])
      key == CacheKey(path, query)
      entry == cacheTab[key]
      a == IF protected THEN AuthenticateToken(auth, now) ELSE Next0
      stage == Stage(Limited(n), entry # NoEntry, a.status # 0, mw.status # 0)
      o == [Obs(c, method, path, query, auth) EXCEPT
              !.creds = input.creds, !.file = input.file,
              !.valid = input.valid, !.limited = Limited(n)]
      Store(r) == [cacheTab EXCEPT ![key] =
                     [status |-> r.status, body |-> r.body,
                      storedAt |-> now, method |-> method]]
  IN
  /\ c \in senders
  /\ CanSend(c)
  /\ key \in scope
  /\ hits' = [hits EXCEPT ![c] = n]
  /\ windowStart' = [windowStart EXCEPT ![c] = IF @ = None THEN now ELSE @]
  /\ tally' = [tally EXCEPT ![c] = Counted(@, n)]
  /\ UNCHANGED <<now, resources, twilioClient, scope, senders, inflight>>
  /\ CASE stage = "limiter" ->
          /\ last' = [o EXCEPT !.status = TooMany.status, !.body = TooMany.body]
          /\ UNCHANGED <<cacheTab, issued, alerts, reports, checkins, files>>
       [] stage = "cache" ->
          /\ last' = [o EXCEPT !.cacheHit = TRUE, !.status = entry.status,
                                !.body = entry.body,
                                !.hitStoredAt = entry.storedAt,
                                !.hitMethod = entry.method]
          /\ UNCHANGED <<cacheTab, issued, alerts, reports, checkins, files>>
       [] stage = "auth" ->
          /\ last' = [o EXCEPT !.authRan = TRUE, !.cached = TRUE,
                                !.status = a.status, !.body = a.body]
          /\ cacheTab' = Store(a)
          /\ UNCHANGED <<issued, alerts, reports, checkins, files>>
       [] stage = "upload" ->
          /\ last' = [o EXCEPT !.authRan = protected, !.cached = TRUE,
                                !.status = mw.status, !.body = mw.body]
          /\ cacheTab' = Store(mw)
          /\ UNCHANGED <<issued, alerts, reports, checkins, files>>
       [] stage = "handler" ->
          \E eff \in effs :
          /\ last' = [o EXCEPT !.authRan = protected, !.handlerRan = TRUE,
                                !.cached = TRUE,
                                !.status = eff.status, !.body = eff.body,
                                !.db = eff.db, !.geo = eff.geo,
                                !.feed = eff.feed, !.sms = eff.sms,
                                !.created = eff.created]
          /\ cacheTab' = Store(eff)
          /\ issued' = eff.issued
          /\ alerts' = eff.alerts
          /\ reports' = eff.reports
          /\ checkins' = eff.checkins
          /\ files' = eff.files

(***************************************************************************)
(* Actions: one per route, and the passage of time                         *)
(***************************************************************************)
\* whether a save succeeds: the store may fail at any time, and the model
\* lets a collection grow to MaxRecords documents
StoreAnswers(count) == IF count < MaxRecords THEN BOOLEAN ELSE {FALSE}

Credentials == { <<"user", "pass">>, <<"user", "nope">>, <<"admin", "pass">> }

Login ==
  \E c \in Clients, cr \in Credentials :
    /\ (cr = <<"user", "pass">>) =>
          (now \in issued \/ Cardinality(issued) < MaxTokens)
    /\ Serve(c, "POST", "/api/login", <<>>, <<>>, Input(cr, NoFile, TRUE),
             FALSE, Next0, {LoginHandler(cr[1], cr[2])})

GetAlerts ==
  \E c \in Clients :
    Serve(c, "GET", "/api/alerts", <<>>, <<>>, NoInput, FALSE, Next0,
          {GetAlertsHandler(dbOk) : dbOk \in BOOLEAN})

PostAlerts ==
  \E c \in Clients, auth \in AuthHeaders, valid \in BOOLEAN :
    Serve(c, "POST", "/api/alerts", <<>>, auth,
          Input(NoCreds, NoFile, valid), TRUE, Next0,
          {PostAlertsHandler(valid, dbOk) : dbOk \in StoreAnswers(alerts)})

PostReports ==
  \E c \in Clients, auth \in AuthHeaders, file \in Files, valid \in BOOLEAN :
    Serve(c, "POST", "/api/reports", <<>>, auth,
          Input(NoCreds, file, valid), TRUE, UploadSingle(file),
          {PostReportsHandler(valid, dbOk) : dbOk \in StoreAnswers(reports)})

GetResources ==
  \E c \in Clients, q \in ResourceQueries :
    Serve(c, "GET", "/api/resources", q, <<>>, NoInput, FALSE, Next0,
          {GetResourcesHandler(q, geo, dbOk) :
             geo \in {"none", "some", "fail"}, dbOk \in BOOLEAN})

GetNews ==
  \E c \in Clients :
    Serve(c, "GET", "/api/news", <<>>, <<>>, NoInput, FALSE, Next0,
          {GetNewsHandler(feedOk, items) : feedOk \in BOOLEAN, items \in {0, 12}})

PostCheckins ==
  \E c \in Clients, auth \in AuthHeaders, valid \in BOOLEAN :
    Serve(c, "POST", "/api/checkins", <<>>, auth,
          Input(NoCreds, NoFile, valid), TRUE, Next0,
          {PostCheckinsHandler(valid, dbOk, smsOk) :
             dbOk \in StoreAnswers(checkins), smsOk \in BOOLEAN})

PostUpload ==
  \E c \in Clients, file \in Files :
    Serve(c, "POST", "/upload", <<>>, <<>>,
          Input(NoCreds, file, TRUE), FALSE, UploadSingle(file),
          {PostUploadHandler(file, dbOk) : dbOk \in StoreAnswers(files)})

\* Time passes to the next instant.  The cache removes an entry by a timer
\* set for CacheTTL after it was stored and the rate limiter ends a window
\* WindowMin after it began; both timers have fired when the next request
\* is handled.
Tick ==
  \E t \in Instants :
    /\ t > now
    /\ \A u \in Instants : u > now => t <= u
    /\ now' = t
    /\ cacheTab' = [k \in Urls |->
                      IF cacheTab[k] # NoEntry /\ Expired(cacheTab[k], t)
                      THEN NoEntry ELSE cacheTab[k]]
    /\ hits' = [c \in Clients |->
                  IF windowStart[c] # None /\ WindowOver(windowStart[c], t)
                  THEN 0 ELSE hits[c]]
    /\ windowStart' = [c \in Clients |->
                  IF windowStart[c] # None /\ WindowOver(windowStart[c], t)
                  THEN None ELSE windowStart[c]]
    /\ tally' = [c \in Clients |->
                  IF windowStart[c] # None /\ WindowOver(windowStart[c], t)
                  THEN NoTally ELSE tally[c]]
    /\ last' = Idle
    /\ UNCHANGED <<issued, alerts, reports, checkins, files, resources,
                   twilioClient, scope, senders, inflight>>

(***************************************************************************)
(* Requests in flight.  Node runs one callback at a time, and a request    *)
(* gives way to the others wherever it waits: while express.json() reads   *)
(* its body (line 207) and while its handler awaits the store.  Between    *)
(* the two it is counted by rateLimit (line 208).                          *)
(*   parsing   the request has arrived, its body is being read             *)
(*   routed    rateLimit counted it and called next()                      *)
(*   rejected  rateLimit counted it and answered 429                       *)
(* seen is the client's count when the request arrived, total the count    *)
(* rateLimit gave it, ord its rank among the requests counted in the       *)
(* client's window.                                                        *)
(***************************************************************************)
Requests == 1..MaxInflight

NoRequest ==
  [pc |-> "idle", client |-> "", seen |-> 0, total |-> 0, ord |-> 0]

Parsing(c) == Cardinality({r \in Requests : inflight[r].pc = "parsing"
                                            /\ inflight[r].client = c})

\* counter values the model explores, the requests not yet counted included
CanArrive(c) ==
  LET m == hits[c] + Parsing(c) IN
  \/ m < MaxBurst
  \/ hits[c] >= MaxRate - RateHeadroom /\ m < MaxRate + MaxBurst

\* a request of client c arrives; express.json() starts reading its body
Arrive ==
  \E r \in Requests, c \in senders :
    /\ inflight[r].pc = "idle"
    /\ \A q \in Requests : q < r => inflight[q].pc # "idle"
    /\ CanArrive(c)
    /\ inflight' = [inflight EXCEPT ![r] =
                      [NoRequest EXCEPT !.pc = "parsing", !.client = c,
                                        !.seen = hits[c]]]
    /\ UNCHANGED <<now, hits, windowStart, cacheTab, issued, alerts, reports,
                   checkins, files, resources, twilioClient, last, scope,
                   senders, tally>>

\* the body is read; rateLimit counts the request and lets it on or ends it
Count ==
  \E r \in Requests :
    LET c == inflight[r].client
        n == Increment(hits[c], inflight[r].seen)
    IN
    /\ inflight[r].pc = "parsing"
    /\ hits' = [hits EXCEPT ![c] = n]
    /\ windowStart' = [windowStart EXCEPT ![c] = IF @ = None THEN now ELSE @]
    /\ tally' = [tally EXCEPT ![c] = Counted(@, n)]
    /\ inflight' = [inflight EXCEPT ![r] =
                      [@ EXCEPT !.pc = IF Limited(n) THEN "rejected" ELSE "routed",
                                !.total = n, !.ord = tally[c].counted + 1]]
    /\ UNCHANGED <<now, cacheTab, issued, alerts, reports, checkins, files,
                   resources, twilioClient, last, scope, senders>>

\* the response of a counted request is sent
Respond ==
  \E r \in Requests :
    /\ inflight[r].pc \in {"routed", "rejected"}
    /\ inflight' = [inflight EXCEPT ![r] = NoRequest]
    /\ UNCHANGED <<now, hits, windowStart, cacheTab, issued, alerts, reports,
                   checkins, files, resources, twilioClient, last, scope,
                   senders, tally>>

Init ==
  /\ now = 0
  /\ hits = [c \in Clients |-> 0]
  /\ windowStart = [c \in Clients |-> None]
  /\ cacheTab = [k \in Urls |-> NoEntry]
  /\ issued = {}
  /\ alerts = 0
  /\ reports = 0
  /\ checkins = 0
  /\ files = 0
  /\ \E d \in Deployments : resources = d.resources /\ twilioClient = d.twilio
  /\ last = Idle
  /\ scope \in Scopes
  /\ senders = {"c1"}
  /\ inflight = [r \in Requests |-> NoRequest]
  /\ tally = [c \in Clients |-> NoTally]

\* five minutes after client c1 logged in and used all but RateHeadroom
\* requests of its window on requests answered from the cache: the entries
\* have expired, the window is still open
InitRate ==
  /\ now = 5
  /\ hits = [c \in Clients |-> IF c = "c1" THEN MaxRate - RateHeadroom ELSE 0]
  /\ windowStart = [c \in Clients |-> IF c = "c1" THEN 0 ELSE None]
  /\ cacheTab = [k \in Urls |-> NoEntry]
  /\ issued = {0}
  /\ alerts = 0
  /\ reports = 0
  /\ checkins = 0
  /\ files = 0
  /\ \E d \in Deployments : resources = d.resources /\ twilioClient = d.twilio
  /\ last = Idle
  /\ scope \in Singles
  /\ senders = Clients
  /\ inflight = [r \in Requests |-> NoRequest]
  /\ tally = [c \in Clients |-> Tally(hits[c])]

\* one client close to max and no URL in scope: only the limiter is exercised
InitConc ==
  /\ now = 5
  /\ hits = [c \in Clients |-> IF c = "c1" THEN MaxRate - RateHeadroom ELSE 0]
  /\ windowStart = [c \in Clients |-> IF c = "c1" THEN 0 ELSE None]
  /\ cacheTab = [k \in Urls |-> NoEntry]
  /\ issued = {}
  /\ alerts = 0
  /\ reports = 0
  /\ checkins = 0
  /\ files = 0
  /\ resources = EmptyStore
  /\ twilioClient = FALSE
  /\ last = Idle
  /\ scope = {}
  /\ senders = {"c1"}
  /\ inflight = [r \in Requests |-> NoRequest]
  /\ tally = [c \in Clients |-> Tally(hits[c])]

Next ==
  \/ Login
  \/ GetAlerts
  \/ PostAlerts
  \/ PostReports
  \/ GetResources
  \/ GetNews
  \/ PostCheckins
  \/ PostUpload
  \/ Tick

Spec == Init /\ [][Next]_vars

SpecRate == InitRate /\ [][Next]_vars

NextConc ==
  \/ Arrive
  \/ Count
  \/ Respond
  \/ Tick

SpecConc == InitConc /\ [][NextConc]_vars

(***************************************************************************)
(* Vocabulary of the properties                                            *)
(***************************************************************************)
ProtectedPaths == {"/api/alerts", "/api/reports", "/api/checkins"}

\* this step is a request of client c (every request is counted)
RequestBy(c) == hits'[c] = hits[c] + 1
RequestStep == \E c \in Clients : RequestBy(c)

Success(status) == status >= 200 /\ status <= 299

StoreUntouched ==
  UNCHANGED <<cacheTab, issued, alerts, reports, checkins, files>>

(***************************************************************************)
(* C1: the cache applies to read operations only: a POST request is never  *)
(* answered from the cache and its response is never stored.               *)
(***************************************************************************)
C1_PostBypassesCache ==
  last.method = "POST" => ~last.cacheHit /\ ~last.cached

(***************************************************************************)
(* C2: a request is served from a cache entry only if the request that     *)
(* stored the entry had the same method (path and query agree by the key). *)
(***************************************************************************)
C2_HitSameMethod ==
  last.cacheHit => last.hitMethod = last.method

(***************************************************************************)
(* C3: a request of a client that already has MaxRate requests counted in  *)
(* its window is answered 429; below that it is not; the count survives    *)
(* while the window lasts and starts again from zero when the window is    *)
(* over, so that the client's requests pass again.                         *)
(***************************************************************************)
C3_Step ==
  \A c \in Clients :
    /\ RequestBy(c) /\ hits[c] >= MaxRate =>
          last'.client = c /\ last'.limited /\ last'.status = 429
    /\ RequestBy(c) /\ hits[c] < MaxRate =>
          last'.client = c /\ ~last'.limited /\ last'.status # 429
    /\ now' > now /\ windowStart[c] # None =>
          IF now' < windowStart[c] + WindowMin
          THEN hits'[c] = hits[c] /\ windowStart'[c] = windowStart[c]
          ELSE hits'[c] = 0

C3_RateWindow == [][C3_Step]_vars

\* the first refused request of c1
C3_Witness ==
  /\ last.client = "c1" /\ last.limited /\ last.status = 429
  /\ hits["c1"] = MaxRate + 1

(***************************************************************************)
(* C4: a request refused by the rate limiter goes no further: no cache     *)
(* look-up or entry, no token check, no handler, no call to the store, the *)
(* geocoder, the feed or the SMS gateway, and nothing changes but the      *)
(* counter.                                                                *)
(***************************************************************************)
C4_Step ==
  RequestStep /\ last'.limited =>
    /\ StoreUntouched
    /\ ~last'.cacheHit /\ ~last'.cached /\ ~last'.authRan /\ ~last'.handlerRan
    /\ last'.db = "-" /\ last'.geo = "-" /\ last'.feed = "-" /\ last'.sms = "-"
    /\ last'.created = 0

C4_LimitedStopsPipeline == [][C4_Step]_vars

\* a refused check-in that carried a valid token
C4_Witness ==
  /\ last.limited /\ last.method = "POST" /\ last.path = "/api/checkins"
  /\ JwtVerify(HeaderToken(last.auth), last.time)

(***************************************************************************)
(* C5: a GET request that passes the rate limiter is answered from the     *)
(* cache exactly when an entry stored under its key less than CacheTTL ago *)
(* exists; it then gets the stored status and body and the handler does    *)
(* not run; otherwise the handler runs.  An entry stays until CacheTTL     *)
(* after it was stored and is gone from then on.                           *)
(***************************************************************************)
C5_Step ==
  /\ RequestStep /\ last'.method = "GET" /\ ~last'.limited =>
        LET e == cacheTab[CacheKey(last'.path, last'.query)] IN
        /\ last'.cacheHit <=> (e # NoEntry /\ now < e.storedAt + CacheTTL)
        /\ last'.cacheHit =>
              /\ last'.status = e.status /\ last'.body = e.body
              /\ ~last'.handlerRan /\ last'.db = "-" /\ last'.geo = "-"
              /\ last'.feed = "-"
        /\ ~last'.cacheHit => last'.handlerRan
  /\ now' > now =>
        \A k \in Urls :
          cacheTab[k] # NoEntry =>
            IF now' < cacheTab[k].storedAt + CacheTTL
            THEN cacheTab'[k] = cacheTab[k]
            ELSE cacheTab'[k] = NoEntry

C5_ReplayWithinTTL == [][C5_Step]_vars

\* a GET answered from an entry that a GET stored at an earlier instant
C5_Witness ==
  /\ last.method = "GET" /\ last.cacheHit /\ last.hitMethod = "GET"
  /\ last.hitStoredAt < last.time /\ Success(last.status)

(***************************************************************************)
(* C6: only successful responses are stored: no cache entry holds an error *)
(* response and no request is answered with a replayed error.              *)
(***************************************************************************)
C6_OnlySuccessStored ==
  /\ \A k \in Urls : cacheTab[k] # NoEntry => Success(cacheTab[k].status)
  /\ last.cacheHit => Success(last.status)

(***************************************************************************)
(* C7: on a protected route a request that the rate limiter lets through   *)
(* is answered 401 'Token required' when it carries no token and 403       *)
(* 'Invalid token' when its token is malformed, wrongly signed or expired; *)
(* in both cases the handler does not run and no record is created.        *)
(***************************************************************************)
C7_TokenRequired ==
  (last.method = "POST" /\ last.path \in ProtectedPaths /\ ~last.limited) =>
    LET token == HeaderToken(last.auth) IN
    /\ token = Undefined =>
          /\ last.status = 401 /\ last.body = Body("Token required", 0)
          /\ ~last.handlerRan /\ last.created = 0
    /\ token # Undefined /\ ~JwtVerify(token, last.time) =>
          /\ last.status = 403 /\ last.body = Body("Invalid token", 0)
          /\ ~last.handlerRan /\ last.created = 0

(***************************************************************************)
(* C8: a login that the rate limiter lets through returns a token exactly  *)
(* when it carries the pair (user, pass), and is answered 401 otherwise;   *)
(* the token check lets an issued token through before its issue time plus *)
(* TokenLife and refuses it from then on.                                  *)
(***************************************************************************)
C8_Login ==
  /\ (last.method = "POST" /\ last.path = "/api/login" /\ ~last.limited) =>
        IF last.creds = <<"user", "pass">>
        THEN last.status = 200 /\ last.body.kind = "token"
        ELSE last.status = 401 /\ last.body.kind # "token"
  /\ (last.authRan /\ HeaderToken(last.auth).sig = "good") =>
        IF last.time < HeaderToken(last.auth).iat + TokenLife
        THEN last.status \notin {401, 403}
        ELSE last.status = 403 /\ ~last.handlerRan

(***************************************************************************)
(* C9: when the handler of GET /api/resources asks the geocoder and gets   *)
(* no match, the response is 404 'City not found' and the store is not     *)
(* queried.                                                                *)
(***************************************************************************)
C9_UnknownCity ==
  (last.path = "/api/resources" /\ last.geo = "none") =>
    /\ last.status = 404 /\ last.body = Body("City not found", 0)
    /\ last.db = "-"

\* the geocoder knows no such city although the store has resources whose
\* city matches the query in another case
C9_Witness ==
  /\ last.path = "/api/resources" /\ last.geo = "none" /\ last.handlerRan
  /\ FindByCity(resources, QueryGet(last.query, "city").value) > 0

(***************************************************************************)
(* C10: when the handler of GET /api/resources runs for a request without  *)
(* a city, the geocoder is not called; the store is read once and at most  *)
(* AllLimit resources are returned.                                        *)
(***************************************************************************)
C10_NoCityNoGeocoder ==
  (last.path = "/api/resources" /\ last.handlerRan
     /\ ~QueryGet(last.query, "city").given) =>
    /\ last.geo = "-"
    /\ last.db # "-"
    /\ last.status = 200 =>
          /\ last.body.kind = "resources"
          /\ last.body.val <= AllLimit
          /\ last.body.val = Min(BagCount(resources), AllLimit)

\* more than AllLimit resources in the store, AllLimit returned
C10_Witness ==
  /\ last.path = "/api/resources" /\ last.handlerRan
  /\ ~QueryGet(last.query, "city").given
  /\ BagCount(resources) > AllLimit /\ last.body.val = AllLimit

(***************************************************************************)
(* C11: in POST /api/checkins the SMS gateway is called only after the     *)
(* record has been saved: when the save fails or is not attempted, no SMS  *)
(* is sent for that request.                                               *)
(***************************************************************************)
C11_Step ==
  RequestStep /\ last'.path = "/api/checkins" =>
    /\ last'.sms # "-" =>
          last'.db = "ok" /\ last'.created = 1 /\ checkins' = checkins + 1
    /\ last'.db # "ok" => last'.sms = "-" /\ checkins' = checkins

C11_SmsAfterPersist == [][C11_Step]_vars

\* the save failed where an SMS gateway is configured: no SMS
C11_Witness ==
  /\ last.path = "/api/checkins" /\ last.handlerRan /\ last.valid
  /\ twilioClient /\ last.db = "fail" /\ last.sms = "-"

(***************************************************************************)
(* C12: when the SMS of a check-in cannot be sent, the record saved before *)
(* stays in the store, during the request and afterwards.                  *)
(***************************************************************************)
C12_Step ==
  /\ RequestStep /\ last'.path = "/api/checkins" /\ last'.sms = "fail" =>
        last'.db = "ok" /\ last'.created = 1 /\ checkins' = checkins + 1
  /\ checkins' >= checkins

C12_NoRollback == [][C12_Step]_vars

C12_Witness ==
  /\ last.path = "/api/checkins" /\ last.sms = "fail" /\ checkins >= 1

(***************************************************************************)
(* C13: the response to a check-in whose SMS could not be sent differs     *)
(* from the response to a check-in whose record could not be saved.        *)
(***************************************************************************)
C13_DistinctFailure ==
  (last.path = "/api/checkins" /\ last.handlerRan /\ last.sms = "fail") =>
    LET storeFailure == PostCheckinsHandler(TRUE, FALSE, TRUE) IN
    <<last.status, last.body>> # <<storeFailure.status, storeFailure.body>>

(***************************************************************************)
(* C14: where no SMS gateway is configured, a check-in with a valid token, *)
(* a message and a phone that the rate limiter lets through is answered    *)
(* 201 and its record is saved, unless the store fails; no SMS is sent.    *)
(***************************************************************************)
C14_NoGateway ==
  (/\ last.method = "POST" /\ last.path = "/api/checkins" /\ ~twilioClient
   /\ ~last.limited /\ last.valid /\ last.db # "fail"
   /\ JwtVerify(HeaderToken(last.auth), last.time)) =>
    last.status = 201 /\ last.created = 1 /\ last.sms = "-"

(***************************************************************************)
(* C15: on POST /api/reports and POST /upload a file whose declared type   *)
(* is neither image/* nor application/pdf, or whose size exceeds 5 MiB, is *)
(* rejected before any persistence: the request creates no Report and no   *)
(* File record.  A PNG of 1 MiB passes the upload stage: its handler runs  *)
(* and, when the store answers, a record is created.                       *)
(***************************************************************************)
UploadPaths == {"/api/reports", "/upload"}

InvalidFile(file) ==
  /\ file # NoFile
  /\ \/ ~(file.mime.type = "image" \/ file.mime = Mime("application", "pdf"))
     \/ file.size > 5 * 1024 * 1024

SmallPng == [mime |-> Mime("image", "png"), size |-> 1024 * 1024]

\* the request reached the route's own chain with the token the route asks for
ReachesRoute(o) ==
  /\ ~o.limited /\ ~o.cacheHit
  /\ o.path \in ProtectedPaths => JwtVerify(HeaderToken(o.auth), o.time)

C15_Step ==
  RequestStep /\ last'.path \in UploadPaths =>
    /\ InvalidFile(last'.file) =>
          /\ ~last'.handlerRan /\ last'.created = 0
          /\ reports' = reports /\ files' = files
    /\ last'.file = SmallPng /\ ReachesRoute(last') =>
          /\ last'.handlerRan
          /\ last'.valid /\ last'.db = "ok" =>
                /\ last'.created = 1 /\ Success(last'.status)
                /\ reports' + files' = reports + files + 1

C16_InvalidFile4xx ==
  (last.path \in UploadPaths /\ InvalidFile(last.file) /\ ReachesRoute(last)) =>
    last.status >= 400 /\ last.status <= 499

(***************************************************************************)
(* C17: every failure response of every route carries a fixed generic      *)
(* message; no exception message reaches the client.                       *)
(***************************************************************************)
GenericMessages ==
  { Body("Server error", 0), Body("Internal server error", 0),
    Body("Error fetching news", 0) }

C17_GenericFailure ==
  (last.status >= 500 /\ ~last.cacheHit) => last.body \in GenericMessages

(***************************************************************************)
(* C18: however the requests of one client interleave within a window,     *)
(* the window counter is incremented exactly once per request: after n     *)
(* requests were counted the count is n, every request got its own rank as *)
(* its total, and exactly the requests ranked 1..100 were let through.     *)
(***************************************************************************)
C18_ExactlyOnce ==
  /\ \A c \in Clients :
        /\ hits[c] = tally[c].counted
        /\ tally[c].admitted = Min(tally[c].counted, MaxRate)
  /\ \A r \in Requests :
        inflight[r].pc \in {"routed", "rejected"} =>
          /\ inflight[r].total = inflight[r].ord
          /\ inflight[r].pc = "routed" <=> inflight[r].ord <= MaxRate

\* two requests of one client arrived before either was counted; one became
\* the 100th of the window and was let through, the other the 101st
C18_Witness ==
  \E r1, r2 \in Requests :
    /\ inflight[r1].client = inflight[r2].client
    /\ inflight[r1].seen = inflight[r2].seen
    /\ inflight[r1].pc = "routed" /\ inflight[r1].ord = MaxRate
    /\ inflight[r2].pc = "rejected" /\ inflight[r2].ord = MaxRate + 1

(***************************************************************************)
(* C19: a request to a protected route that carries no token or an invalid *)
(* token never receives a 2xx response, whatever requests came before.     *)
(***************************************************************************)
C19_NoTokenNoSuccess ==
  (/\ last.method = "POST" /\ last.path \in ProtectedPaths
   /\ ~JwtVerify(HeaderToken(last.auth), last.time)) =>
    ~Success(last.status)

(***************************************************************************)
(* C20: a request to a protected route that carries a valid unexpired      *)
(* token and is not rate-limited is never answered 401 or 403, whatever    *)
(* requests came before.                                                   *)
(***************************************************************************)
C20_ValidTokenNotDenied ==
  (/\ last.method = "POST" /\ last.path \in ProtectedPaths
   /\ JwtVerify(HeaderToken(last.auth), last.time) /\ ~last.limited) =>
    last.status \notin {401, 403}

====
